---- MODULE Spec2Model ----
(***************************************************************************)
(* prometheus_speedtest.py: a thread-per-connection HTTP server whose      *)
(* '/probe' path runs one full speedtest (SpeedtestCollector.collect ->    *)
(* PrometheusSpeedtest.test) and answers with the five gauges; any other   *)
(* path is served as a static file.                                        *)
(*                                                                         *)
(* The program state is: the position of main(), one handler per           *)
(* connection (its position in do_GET / collect / test and its locals),    *)
(* the shared tester configuration and what each client has received.      *)
(* The libraries the file calls (socketserver, http.server,                *)
(* prometheus_client, speedtest) are modelled by what the calls in the     *)
(* file make them do; the network and the filesystem are nondeterministic. *)
(***************************************************************************)
EXTENDS Naturals, Sequences, FiniteSets

\* Number of connections clients open during a run.
MaxConns == 2

Conns == 1..MaxConns

\* ------------------------------------------------------------------------
\* Strings are sequences of one-character strings, so that parsing a request
\* target is computed and not assumed.

Str_probe == <<"/", "p", "r", "o", "b", "e">>
Str_name == <<"n", "a", "m", "e", "[", "]">>
Str_ping_ms == <<"p", "i", "n", "g", "_", "m", "s">>

\* Request targets the clients send: '/probe', '/probe?name[]=ping_ms' (the
\* exposition's filter on metric names), the root page '/', and '/probes', a
\* path that only starts with the probe path.
Targets ==
    { Str_probe,
      Str_probe \o <<"?">> \o Str_name \o <<"=">> \o Str_ping_ms,
      <<"/">>,
      Str_probe \o <<"s">> }

IndexOf(s, ch) ==
    IF \E i \in 1..Len(s) : s[i] = ch
    THEN CHOOSE i \in 1..Len(s) : s[i] = ch /\ \A j \in 1..(i - 1) : s[j] # ch
    ELSE 0

LastIndexOf(s, ch) ==
    IF \E i \in 1..Len(s) : s[i] = ch
    THEN CHOOSE i \in 1..Len(s) : s[i] = ch /\ \A j \in (i + 1)..Len(s) : s[j] # ch
    ELSE 0

Before(s, ch) == IF IndexOf(s, ch) = 0 THEN s ELSE SubSeq(s, 1, IndexOf(s, ch) - 1)

After(s, ch) == IF IndexOf(s, ch) = 0 THEN <<>> ELSE SubSeq(s, IndexOf(s, ch) + 1, Len(s))

RECURSIVE Split(_, _)
Split(s, ch) ==
    IF IndexOf(s, ch) = 0 THEN {s} ELSE {Before(s, ch)} \cup Split(After(s, ch), ch)

\* urllib.parse._splitparams: the ';parameters' of the last path segment.
SplitParams(u) ==
    LET slash == LastIndexOf(u, "/")
        tail == SubSeq(u, slash + 1, Len(u))
    IN  IF IndexOf(tail, ";") = 0 THEN u
        ELSE SubSeq(u, 1, slash + IndexOf(tail, ";") - 1)

\* urllib.parse.urlparse(self.path).path for an origin-form target (no scheme,
\* no '//' authority): the fragment is cut at the first '#', the query at the
\* first '?', then the parameters of the last segment.
UrlPath(t) == SplitParams(Before(Before(t, "#"), "?"))

\* urlparse(self.path).query
UrlQuery(t) == After(Before(t, "#"), "?")

\* 'name[]' in parse_qs(query): some '&'-separated pair has the key name[] and
\* a non-blank value (parse_qs drops blank values).
HasNameParam(t) ==
    \E pair \in Split(UrlQuery(t), "&") :
        /\ IndexOf(pair, "=") # 0
        /\ Before(pair, "=") = Str_name
        /\ After(pair, "=") # <<>>

\* do_GET: urlparse(self.path).path == '/probe'
IsProbe(t) == UrlPath(t) = Str_probe

\* ------------------------------------------------------------------------
\* Measurement values.

\* speedtest.SpeedtestResults as constructed: every figure 0.
NoResults ==
    [download |-> 0, upload |-> 0, ping |-> 0, bytes_received |-> 0, bytes_sent |-> 0]

\* What the network can deliver to one sub-step: get_best_server sets the
\* latency, download the download speed and the bytes received, upload the
\* upload speed and the bytes sent.
Pings == {1, 2}

Downloads == {[speed |-> 3, bytes |-> 4]}

Uploads == {[speed |-> 7, bytes |-> 8]}

\* collect(): the gauges in the order of their yield statements.
MetricOrder ==
    <<"download_speed_bps", "upload_speed_bps", "ping_ms", "bytes_received", "bytes_sent">>

\* A collect() whose last two gauges read each other's field.
FieldOfSwapped(name, r) ==
    CASE name = "download_speed_bps" -> r.download
      [] name = "upload_speed_bps" -> r.upload
      [] name = "ping_ms" -> r.ping
      [] name = "bytes_received" -> r.bytes_sent
      [] name = "bytes_sent" -> r.bytes_received

\* collect(): the field of results each gauge's add_metric(value=...) reads.
FieldOf(name, r) ==
    CASE name = "download_speed_bps" -> r.download
      [] name = "upload_speed_bps" -> r.upload
      [] name = "ping_ms" -> r.ping
      [] name = "bytes_received" -> r.bytes_received
      [] name = "bytes_sent" -> r.bytes_sent

\* The i-th sample collect() yields from results r.
SampleAt(i, r) == <<MetricOrder[i], FieldOf(MetricOrder[i], r)>>

\* ------------------------------------------------------------------------
\* State.

VARIABLES
    mainPc,     \* position of main()
    tester,     \* the one PrometheusSpeedtest: _source_address, _timeout
    regCalls,   \* Tester invocations started by registry.register
    pc,         \* per connection: position of the connection and its handler
    target,     \* per connection: the request target (self.path)
    route,      \* per connection: the handler do_GET dispatched it to
    gone,       \* per connection: the client has disconnected
    hung,       \* per connection: the measurement's network I/O has stalled
    client,     \* per slot: results of the speedtest.Speedtest client in test()
    results,    \* per connection: collect()'s local results
    out,        \* per connection: samples the encoder has taken from collect()
    response,   \* per connection: what the client has received
    steps,      \* per connection: sub-steps test() has run in this invocation
    failed,     \* per connection: a sub-step of this invocation has raised
    measured,   \* per connection: what the network delivered to this invocation
    calls       \* per connection: Tester invocations its handler has started

vars ==
    <<mainPc, tester, regCalls, pc, target, route, gone, hung, client, results, out,
      response, steps, failed, measured, calls>>

\* The thread that runs main() and the accept loop.
MainThread == 0

\* Slot 0 is state kept on the shared tester object.
Slots == 0..MaxConns

NoResponse == [status |-> 0, body |-> <<>>]

\* PrometheusSpeedtest(): source_address=None, timeout=10
TesterConfig == [source_address |-> "None", timeout |-> 10]

\* main(): CollectorRegistry(auto_describe=False)
auto_describe == FALSE

\* A plain HTTPServer: the handler runs in the accept loop's own thread.
HandlerThreadInline(c) == MainThread

\* main(): socketserver.ThreadingMixIn runs the handler of each accepted
\* connection in a thread of its own.
HandlerThread(c) == c

\* A tester that keeps its speedtest client on self.
ClientSlotShared(c) == 0

\* test(): client is a local variable of the invocation.
ClientSlot(c) == c

InTest == {"ctor", "get_best_server", "download", "upload"}

\* A measurement is in flight: the handler is inside test().
InFlight(c) == pc[c] \in InTest

\* The handler of c is running (accepted, not yet finished).
Active(c) == pc[c] \notin {"idle", "pending", "closed"}

\* A test() that runs the upload before the download.
TestNextUploadFirst(step, ok) ==
    IF ~ok THEN "raise"
    ELSE CASE step = "ctor" -> "get_best_server"
           [] step = "get_best_server" -> "upload"
           [] step = "upload" -> "download"
           [] step = "download" -> "return"

\* A test() that catches the error of a sub-step and carries on.
TestNextSwallow(step, ok) ==
    CASE step = "ctor" -> "get_best_server"
      [] step = "get_best_server" -> "download"
      [] step = "download" -> "upload"
      [] step = "upload" -> "return"

\* test(): the statement after `step`; an exception leaves test() at once.
TestNext(step, ok) ==
    IF ~ok THEN "raise"
    ELSE CASE step = "ctor" -> "get_best_server"
           [] step = "get_best_server" -> "download"
           [] step = "download" -> "upload"
           [] step = "upload" -> "return"

\* A collect() that catches the tester's error and yields nothing.
CollectOnRaiseSwallow == "send_response"

\* collect(): results = self._tester.test() is not guarded, so the error goes
\* through collect() and the encoder to MetricsHandler.do_GET, which answers
\* with send_error(500) and re-raises.
CollectOnRaise == "send_error"

\* A handler that gives up its measurement when the client goes away.
OnDisconnectAbort(c) == IF InFlight(c) THEN "closed" ELSE pc[c]

\* Nothing in test(), collect() or do_GET looks at the connection while the
\* measurement runs: a disconnect leaves the handler where it is.
OnDisconnect(c) == pc[c]

Init ==
    /\ mainPc = "start"
    /\ tester = TesterConfig
    /\ regCalls = 0
    /\ pc = [c \in Conns |-> "idle"]
    /\ target = [c \in Conns |-> <<>>]
    /\ route = [c \in Conns |-> "none"]
    /\ gone = [c \in Conns |-> FALSE]
    /\ hung = [c \in Conns |-> FALSE]
    /\ client = [s \in Slots |-> NoResults]
    /\ results = [c \in Conns |-> NoResults]
    /\ out = [c \in Conns |-> <<>>]
    /\ response = [c \in Conns |-> NoResponse]
    /\ steps = [c \in Conns |-> <<>>]
    /\ failed = [c \in Conns |-> FALSE]
    /\ measured = [c \in Conns |-> NoResults]
    /\ calls = [c \in Conns |-> 0]

connVars ==
    <<pc, target, route, gone, hung, client, results, out, response, steps, failed,
      measured, calls>>

\* ------------------------------------------------------------------------
\* main()

\* registry.register(SpeedtestCollector()): the registry asks the collector
\* for its names; it runs collect(), and so the tester, only when it
\* auto-describes.
MainRegister ==
    /\ mainPc = "start"
    /\ mainPc' = "registered"
    /\ regCalls' = regCalls + (IF auto_describe THEN 1 ELSE 0)
    /\ UNCHANGED <<tester, connVars>>

\* threading_http_server(('', FLAGS.port), metrics_handler): binds and
\* listens, or raises and main() ends.
MainBind ==
    /\ mainPc = "registered"
    /\ mainPc' \in {"bound", "bind_failed"}
    /\ UNCHANGED <<tester, regCalls, connVars>>

\* os.chdir(.../static), then server.serve_forever()
MainServe ==
    /\ mainPc = "bound"
    /\ mainPc' = "serve_forever"
    /\ UNCHANGED <<tester, regCalls, connVars>>

\* ------------------------------------------------------------------------
\* Clients.

\* A client connects and sends 'GET target'. Connections are numbered in the
\* order they arrive; the listening socket queues them from bind on.
Connect(c) ==
    /\ mainPc \in {"bound", "serve_forever"}
    /\ pc[c] = "idle"
    /\ \A d \in Conns : d < c => pc[d] # "idle"
    /\ \E t \in Targets : target' = [target EXCEPT ![c] = t]
    /\ pc' = [pc EXCEPT ![c] = "pending"]
    /\ UNCHANGED <<mainPc, tester, regCalls, route, gone, hung, client, results, out,
                   response, steps, failed, measured, calls>>

\* The client closes its end while its measurement is in flight.
Disconnect(c) ==
    /\ InFlight(c)
    /\ ~gone[c]
    /\ gone' = [gone EXCEPT ![c] = TRUE]
    /\ pc' = [pc EXCEPT ![c] = OnDisconnect(c)]
    /\ UNCHANGED <<mainPc, tester, regCalls, target, route, hung, client, results, out,
                   response, steps, failed, measured, calls>>

\* The network stops delivering to the measurement of c.
Stall(c) ==
    /\ InFlight(c)
    /\ ~hung[c]
    /\ hung' = [hung EXCEPT ![c] = TRUE]
    /\ UNCHANGED <<mainPc, tester, regCalls, pc, target, route, gone, client, results,
                   out, response, steps, failed, measured, calls>>

\* ------------------------------------------------------------------------
\* The server's accept loop and the handler of each connection.

\* serve_forever(): accepts the oldest queued connection and hands it to
\* process_request, once the loop's own thread is not running a handler.
Accept(c) ==
    /\ mainPc = "serve_forever"
    /\ pc[c] = "pending"
    /\ \A d \in Conns : d < c => pc[d] # "pending"
    /\ \A d \in Conns : Active(d) => HandlerThread(d) # MainThread
    /\ pc' = [pc EXCEPT ![c] = "do_GET"]
    /\ UNCHANGED <<mainPc, tester, regCalls, target, route, gone, hung, client,
                   results, out, response, steps, failed, measured, calls>>

\* SpeedtestMetricsHandler.do_GET: dispatch on the parsed path.
DoGet(c) ==
    /\ pc[c] = "do_GET"
    /\ route' = [route EXCEPT ![c] = IF IsProbe(target[c]) THEN "metrics" ELSE "static"]
    /\ pc' = [pc EXCEPT ![c] = route'[c]]
    /\ UNCHANGED <<mainPc, tester, regCalls, target, gone, hung, client, results,
                   out, response, steps, failed, measured, calls>>

\* Leaving the handler: its locals are dropped, the connection is shut down.
Finish(c, resp) ==
    /\ pc' = [pc EXCEPT ![c] = "closed"]
    /\ response' = [response EXCEPT ![c] = IF gone[c] THEN NoResponse ELSE resp]
    /\ results' = [results EXCEPT ![c] = NoResults]
    /\ out' = [out EXCEPT ![c] = <<>>]
    /\ steps' = [steps EXCEPT ![c] = <<>>]

\* http.server.SimpleHTTPRequestHandler.do_GET: the file, or 404.
Static(c) ==
    /\ pc[c] = "static"
    /\ \E st \in {200, 404} : Finish(c, [status |-> st, body |-> <<>>])
    /\ UNCHANGED <<mainPc, tester, regCalls, target, route, gone, hung, client,
                   failed, measured, calls>>

\* The five gauge names, as request text.
DescribedNames ==
    { <<"d", "o", "w", "n", "l", "o", "a", "d", "_", "s", "p", "e", "e", "d", "_", "b", "p", "s">>,
      <<"u", "p", "l", "o", "a", "d", "_", "s", "p", "e", "e", "d", "_", "b", "p", "s">>,
      Str_ping_ms,
      <<"b", "y", "t", "e", "s", "_", "r", "e", "c", "e", "i", "v", "e", "d">>,
      <<"b", "y", "t", "e", "s", "_", "s", "e", "n", "t">> }

\* The names the registry holds for the collector: SpeedtestCollector has no
\* describe(), so there are none unless the registry auto-describes.
RegisteredNames == IF auto_describe THEN DescribedNames ELSE {}

\* The values of name[] in the query.
NameParams(t) ==
    { After(pair, "=") : pair \in
        { q \in Split(UrlQuery(t), "&") : IndexOf(q, "=") # 0 /\ Before(q, "=") = Str_name } }

\* prometheus_client.MetricsHandler.do_GET: with name[] in the query the
\* registry is restricted to the collectors registered under those names;
\* otherwise every registered collector is collected from.
ReachesCollector(t) ==
    ~HasNameParam(t) \/ NameParams(t) \cap RegisteredNames # {}

\* prometheus_client.MetricsHandler.do_GET, entered from do_GET: the encoder
\* asks the registry, which calls collect(), whose first statement is
\* self._tester.test(); with no collector to ask the output is empty.
Metrics(c) ==
    /\ pc[c] = "metrics"
    /\ IF ReachesCollector(target[c])
       THEN /\ pc' = [pc EXCEPT ![c] = "ctor"]
            /\ calls' = [calls EXCEPT ![c] = @ + 1]
       ELSE /\ pc' = [pc EXCEPT ![c] = "send_response"]
            /\ UNCHANGED calls
    /\ UNCHANGED <<mainPc, tester, regCalls, target, route, gone, hung, client,
                   results, out, response, steps, failed, measured>>

\* test(): client = speedtest.Speedtest(source_address, timeout), which
\* fetches the configuration and may raise.
Ctor(c) ==
    /\ pc[c] = "ctor"
    /\ ~hung[c]
    /\ \/ /\ client' = [client EXCEPT ![ClientSlot(c)] = NoResults]
          /\ pc' = [pc EXCEPT ![c] = TestNext("ctor", TRUE)]
          /\ UNCHANGED failed
       \/ /\ failed' = [failed EXCEPT ![c] = TRUE]
          /\ pc' = [pc EXCEPT ![c] = TestNext("ctor", FALSE)]
          /\ UNCHANGED client
    /\ UNCHANGED <<mainPc, tester, regCalls, target, route, gone, hung, results,
                   out, response, steps, measured, calls>>

\* test(): client.get_best_server()
GetBestServer(c) ==
    /\ pc[c] = "get_best_server"
    /\ ~hung[c]
    /\ steps' = [steps EXCEPT ![c] = Append(@, "get_best_server")]
    /\ \/ /\ \E v \in Pings :
                /\ client' = [client EXCEPT ![ClientSlot(c)].ping = v]
                /\ measured' = [measured EXCEPT ![c].ping = v]
          /\ pc' = [pc EXCEPT ![c] = TestNext("get_best_server", TRUE)]
          /\ UNCHANGED failed
       \/ /\ failed' = [failed EXCEPT ![c] = TRUE]
          /\ pc' = [pc EXCEPT ![c] = TestNext("get_best_server", FALSE)]
          /\ UNCHANGED <<client, measured>>
    /\ UNCHANGED <<mainPc, tester, regCalls, target, route, gone, hung, results,
                   out, response, calls>>

\* test(): client.download()
Download(c) ==
    /\ pc[c] = "download"
    /\ ~hung[c]
    /\ steps' = [steps EXCEPT ![c] = Append(@, "download")]
    /\ \/ /\ \E v \in Downloads :
                /\ client' = [client EXCEPT ![ClientSlot(c)].download = v.speed,
                                            ![ClientSlot(c)].bytes_received = v.bytes]
                /\ measured' = [measured EXCEPT ![c].download = v.speed,
                                                ![c].bytes_received = v.bytes]
          /\ pc' = [pc EXCEPT ![c] = TestNext("download", TRUE)]
          /\ UNCHANGED failed
       \/ /\ failed' = [failed EXCEPT ![c] = TRUE]
          /\ pc' = [pc EXCEPT ![c] = TestNext("download", FALSE)]
          /\ UNCHANGED <<client, measured>>
    /\ UNCHANGED <<mainPc, tester, regCalls, target, route, gone, hung, results,
                   out, response, calls>>

\* test(): client.upload()
Upload(c) ==
    /\ pc[c] = "upload"
    /\ ~hung[c]
    /\ steps' = [steps EXCEPT ![c] = Append(@, "upload")]
    /\ \/ /\ \E v \in Uploads :
                /\ client' = [client EXCEPT ![ClientSlot(c)].upload = v.speed,
                                            ![ClientSlot(c)].bytes_sent = v.bytes]
                /\ measured' = [measured EXCEPT ![c].upload = v.speed,
                                                ![c].bytes_sent = v.bytes]
          /\ pc' = [pc EXCEPT ![c] = TestNext("upload", TRUE)]
          /\ UNCHANGED failed
       \/ /\ failed' = [failed EXCEPT ![c] = TRUE]
          /\ pc' = [pc EXCEPT ![c] = TestNext("upload", FALSE)]
          /\ UNCHANGED <<client, measured>>
    /\ UNCHANGED <<mainPc, tester, regCalls, target, route, gone, hung, results,
                   out, response, calls>>

\* test(): return client.results, which collect() binds to results.
Return(c) ==
    /\ pc[c] = "return"
    /\ results' = [results EXCEPT ![c] = client[ClientSlot(c)]]
    /\ client' = [client EXCEPT ![ClientSlot(c)] = NoResults]
    /\ pc' = [pc EXCEPT ![c] = "yield"]
    /\ UNCHANGED <<mainPc, tester, regCalls, target, route, gone, hung, out,
                   response, steps, failed, measured, calls>>

\* An exception leaves test() and reaches collect().
Raise(c) ==
    /\ pc[c] = "raise"
    /\ client' = [client EXCEPT ![ClientSlot(c)] = NoResults]
    /\ measured' = [measured EXCEPT ![c] = NoResults]
    /\ pc' = [pc EXCEPT ![c] = CollectOnRaise]
    /\ UNCHANGED <<mainPc, tester, regCalls, target, route, gone, hung, results,
                   out, response, steps, failed, calls>>

\* collect(): the next yield; the encoder keeps the sample.
Yield(c) ==
    /\ pc[c] = "yield"
    /\ Len(out[c]) < Len(MetricOrder)
    /\ out' = [out EXCEPT ![c] = Append(@, SampleAt(Len(@) + 1, results[c]))]
    /\ UNCHANGED <<mainPc, tester, regCalls, pc, target, route, gone, hung,
                   client, results, response, steps, failed, measured, calls>>

\* collect() returns after its last yield: the encoder has its output.
Exhaust(c) ==
    /\ pc[c] = "yield"
    /\ Len(out[c]) = Len(MetricOrder)
    /\ pc' = [pc EXCEPT ![c] = "send_response"]
    /\ UNCHANGED <<mainPc, tester, regCalls, target, route, gone, hung, client,
                   results, out, response, steps, failed, measured, calls>>

\* MetricsHandler.do_GET: send_response(200), headers, the encoded output.
SendResponse(c) ==
    /\ pc[c] = "send_response"
    /\ Finish(c, [status |-> 200, body |-> out[c]])
    /\ UNCHANGED <<mainPc, tester, regCalls, target, route, gone, hung, client,
                   failed, measured, calls>>

\* MetricsHandler.do_GET: the encoder raised: send_error(500), re-raise; the
\* handler's thread reports the error and shuts the connection down.
SendError(c) ==
    /\ pc[c] = "send_error"
    /\ Finish(c, [status |-> 500, body |-> <<>>])
    /\ UNCHANGED <<mainPc, tester, regCalls, target, route, gone, hung, client,
                   failed, measured, calls>>

\* ------------------------------------------------------------------------

MainStep == MainRegister \/ MainBind \/ MainServe

HandlerStep(c) ==
    \/ DoGet(c)
    \/ Static(c)
    \/ Metrics(c)
    \/ Ctor(c)
    \/ GetBestServer(c)
    \/ Download(c)
    \/ Upload(c)
    \/ Return(c)
    \/ Raise(c)
    \/ Yield(c)
    \/ Exhaust(c)
    \/ SendResponse(c)
    \/ SendError(c)

Next ==
    \/ MainStep
    \/ \E c \in Conns :
        \/ Connect(c)
        \/ Disconnect(c)
        \/ Stall(c)
        \/ Accept(c)
        \/ HandlerStep(c)

Spec == Init /\ [][Next]_vars

\* The scheduler runs main() and every thread that can take a step; the
\* network and the clients owe nothing (Connect, Disconnect, Stall).
FairSpec ==
    /\ Spec
    /\ WF_vars(MainStep)
    /\ \A c \in Conns : WF_vars(Accept(c)) /\ WF_vars(HandlerStep(c))

\* ------------------------------------------------------------------------
\* Properties.

\* The five samples of result r, written out.
FiveSamples(r) ==
    << <<"download_speed_bps", r.download>>,
       <<"upload_speed_bps", r.upload>>,
       <<"ping_ms", r.ping>>,
       <<"bytes_received", r.bytes_received>>,
       <<"bytes_sent", r.bytes_sent>> >>

IsPrefix(s, t) == Len(s) <= Len(t) /\ SubSeq(t, 1, Len(s)) = s

SubSteps == <<"get_best_server", "download", "upload">>

\* The oldest queued connection.
HeadOfQueue(c) == pc[c] = "pending" /\ \A d \in Conns : d < c => pc[d] # "pending"

\* C1: for a result r that test() returned, collect() yields exactly the five
\* samples download_speed_bps, upload_speed_bps, ping_ms, bytes_received,
\* bytes_sent, in this order, with the values r.download, r.upload, r.ping,
\* r.bytes_received, r.bytes_sent: while it yields, what it has yielded is the
\* start of that list, and when it has returned, it is the whole list.
C1_CollectYieldsFive ==
    \A c \in Conns :
        /\ pc[c] = "yield" => IsPrefix(out[c], FiveSamples(results[c]))
        /\ (pc[c] = "send_response" /\ calls[c] > 0) =>
              out[c] = FiveSamples(results[c])

C1_Witness ==
    \E c \in Conns :
        /\ pc[c] = "send_response"
        /\ calls[c] = 1
        /\ ~failed[c]
        /\ results[c].ping = 2
        /\ Len(out[c]) = 5

\* C2: a collection cycle emits nothing or ends at five samples: a failed
\* tester leaves zero samples and its error goes on to the caller (never a
\* 200), a finished collect() has emitted 0 or 5, and no response carries 1 to
\* 4 samples.
C2_AllOrNothing ==
    \A c \in Conns :
        /\ Len(out[c]) <= 5
        /\ failed[c] => out[c] = <<>> /\ pc[c] \in {"raise", "send_error", "closed"}
        /\ pc[c] = "send_response" => Len(out[c]) \in {0, 5}
        /\ Len(response[c].body) \in {0, 5}
        /\ (pc[c] = "closed" /\ failed[c]) =>
              response[c].status # 200 /\ response[c].body = <<>>

C2_Witness ==
    \E c, d \in Conns :
        /\ pc[c] = "closed" /\ failed[c] /\ response[c].status = 500
        /\ pc[d] = "yield" /\ Len(out[d]) \in 1..4

\* C3: a request whose parsed path is '/probe' goes to the metrics handler
\* and reaches the collector (its handler starts a measurement); any other
\* request goes to the static handler and starts none.
C3_ProbeReachesCollector ==
    \A c \in Conns :
        pc[c] = "closed" =>
            IF UrlPath(target[c]) = Str_probe
            THEN route[c] = "metrics" /\ calls[c] = 1
            ELSE route[c] = "static" /\ calls[c] = 0

\* C4: whatever measurement has stalled, every queued connection is accepted
\* and its request comes to its end (answered, unless its own client has
\* gone), or it is its own measurement that stalls.
C4_NoStarvation ==
    \A c \in Conns :
        (pc[c] = "pending") ~>
            (hung[c] \/ (pc[c] = "closed" /\ (gone[c] \/ response[c].status # 0)))

C4_Witness ==
    \E c, d \in Conns :
        /\ c < d
        /\ hung[c]
        /\ pc[d] = "closed"
        /\ response[d].status = 200
        /\ Len(response[d].body) = 5

\* C5: a probe whose measurement failed is answered with status 500 and no
\* sample, and the server goes on: it is still in serve_forever and the
\* oldest queued connection can be accepted.
C5_FailureIs500 ==
    /\ \A c \in Conns :
          (pc[c] = "closed" /\ failed[c] /\ ~gone[c]) =>
              response[c].status = 500 /\ response[c].body = <<>>
    /\ (\E c \in Conns : failed[c]) =>
          /\ mainPc = "serve_forever"
          /\ \A d \in Conns : HeadOfQueue(d) => ENABLED Accept(d)

C5_Witness ==
    \E c, d \in Conns :
        /\ c < d
        /\ pc[c] = "closed" /\ failed[c] /\ response[c].status = 500
        /\ pc[d] = "closed" /\ response[d].status = 200 /\ Len(response[d].body) = 5

\* C6: registration starts no measurement, and the measurements started are
\* as many as the probe requests the metrics handler has taken up: each
\* dispatched probe starts exactly one.
C6_OneMeasurementPerProbe ==
    /\ regCalls = 0
    /\ \A c \in Conns :
          calls[c] = IF route[c] = "metrics" /\ pc[c] # "metrics" THEN 1 ELSE 0

\* C7: the values a probe is answered with are those the network delivered
\* to the measurement its own handler started, whatever the other handlers
\* do; the tester's configuration is never written.
C7_RequestIsolation ==
    /\ tester = TesterConfig
    /\ \A c \in Conns :
          /\ (pc[c] \in {"yield", "send_response"} /\ calls[c] > 0) =>
                results[c] = measured[c]
          /\ (pc[c] = "closed" /\ response[c].status = 200 /\ response[c].body # <<>>) =>
                /\ Len(response[c].body) = 5
                /\ response[c].body[1][2] = measured[c].download
                /\ response[c].body[2][2] = measured[c].upload
                /\ response[c].body[3][2] = measured[c].ping
                /\ response[c].body[4][2] = measured[c].bytes_received
                /\ response[c].body[5][2] = measured[c].bytes_sent

C7_Witness ==
    \E c, d \in Conns :
        /\ c # d
        /\ pc[c] = "send_response" /\ Len(out[c]) = 5
        /\ pc[d] = "upload"
        /\ measured[c].ping # measured[d].ping

\* C8: test() runs get_best_server, download, upload in this order, each at
\* most once; after a failure it runs no further sub-step and returns no
\* result; it returns a result only after all three.
C8_SubStepOrder ==
    \A c \in Conns :
        /\ IsPrefix(steps[c], SubSteps)
        /\ pc[c] = "get_best_server" => steps[c] = <<>>
        /\ pc[c] = "download" => steps[c] = <<"get_best_server">>
        /\ pc[c] = "upload" => steps[c] = <<"get_best_server", "download">>
        /\ (pc[c] \in {"return", "yield"}) => steps[c] = SubSteps /\ ~failed[c]
        /\ failed[c] => ~InFlight(c) /\ pc[c] # "return" /\ results[c] = NoResults

C8_Witness ==
    \E c, d \in Conns :
        /\ pc[c] = "return" /\ steps[c] = SubSteps
        /\ pc[d] = "raise" /\ steps[d] = <<"get_best_server", "download">>

\* C9: nothing holds a probe back because others are measuring: while the
\* server serves, the oldest queued connection can always be accepted,
\* however many measurements are in flight, and no request is turned away
\* (every response is 200, 404 or 500).
C9_NoAdmissionControl ==
    \A c \in Conns :
        /\ (mainPc = "serve_forever" /\ HeadOfQueue(c)) => ENABLED Accept(c)
        /\ response[c].status \in {0, 200, 404, 500}

\* Every connection of the run has its measurement in flight at once.
C9_Witness == \A c \in Conns : InFlight(c)

\* C10: a measurement leaves the in-flight state only by returning its
\* result or by raising; a client's disconnect changes nothing but that
\* client's own connection state.
C10_NoCancellation ==
    [][\A c \in Conns :
          /\ (InFlight(c) /\ ~InFlight(c)') =>
                \/ pc'[c] = "return" /\ ~failed'[c]
                \/ pc'[c] = "raise" /\ failed'[c]
          /\ (~gone[c] /\ gone'[c]) =>
                /\ pc' = pc
                /\ mainPc' = mainPc
                /\ steps' = steps /\ client' = client /\ hung' = hung]_vars

C10_Witness ==
    \E c \in Conns : gone[c] /\ pc[c] = "return" /\ steps[c] = SubSteps

====
